---------------------------- MODULE Spec2Model ----------------------------
(***************************************************************************)
(* Model of rust_byteclasser (src/rust_byteclasser/src/main.rs): scoring   *)
(* of text rows against labelled byte patterns.                            *)
(*                                                                         *)
(*   SpecFind, SpecFindFair  find_occurrences, one step per loop iteration *)
(*   SpecRow                 process_row called on one row                 *)
(*   SpecWrite               write_results called on a list of results     *)
(*   Spec                    main: load the targets, read the rows, score  *)
(*                           them on parallel workers, write the output    *)
(*                                                                         *)
(* An operator marked (variant) is the operator after it with one         *)
(* plausible fault; the properties at the end of the module are expected   *)
(* to tell the two apart.                                                  *)
(***************************************************************************)
EXTENDS Integers, Sequences, FiniteSets

VARIABLES
    \* find_occurrences(text, pattern): arguments, position in the code, locals
    foText, foPattern, foPc, foI, foCount,
    \* process_row(row_id, record, targets): arguments, position, returned value
    prRowId, prRecord, prTargets, prPc, prResult,
    \* write_results(output_path, results): argument, position, the records written
    wrResults, wrPc, wrOutput,
    \* main: position, the number of arguments, the outcome of loading the targets
    \* file, the rows of the input file, and the locals targets, records, results
    pc, argc, configLoad, inputRows, targets, records, results,
    \* the parallel map: rows not yet taken, the row each worker holds, the
    \* results placed so far, and the rows in the order their results arrived
    pending, worker, slots, completed,
    \* the output file, and what ended the run
    output, exitCause

foVars == <<foText, foPattern, foPc, foI, foCount>>
prVars == <<prRowId, prRecord, prTargets, prPc, prResult>>
wrVars == <<wrResults, wrPc, wrOutput>>
mainVars == <<pc, argc, configLoad, inputRows, targets, records, results,
              pending, worker, slots, completed, output, exitCause>>
vars == <<foVars, prVars, wrVars, mainVars>>

(***************************************************************************)
(* The variables of the parts a specification does not run                 *)
(***************************************************************************)
FindIdle ==
    /\ foText = <<>>
    /\ foPattern = <<>>
    /\ foPc = "idle"
    /\ foI = 0
    /\ foCount = 0

RowIdle ==
    /\ prRowId = 0
    /\ prRecord = <<>>
    /\ prTargets = [targets |-> <<>>]
    /\ prPc = "idle"
    /\ prResult = [row_id |-> 0, text |-> <<>>, scores |-> <<>>]

WriteIdle ==
    /\ wrResults = <<>>
    /\ wrPc = "idle"
    /\ wrOutput = <<>>

NoTargets == [targets |-> <<>>]
NotLoaded == [ok |-> FALSE, error |-> "not_loaded", value |-> NoTargets]
NoOutput == [created |-> FALSE, rows |-> <<>>]

MainIdle ==
    /\ pc = "idle"
    /\ argc = 0
    /\ configLoad = NotLoaded
    /\ inputRows = <<>>
    /\ targets = NoTargets
    /\ records = <<>>
    /\ results = <<>>
    /\ pending = {}
    /\ worker = <<>>
    /\ slots = <<>>
    /\ completed = <<>>
    /\ output = NoOutput
    /\ exitCause = "none"

(***************************************************************************)
(* Bounds of the model                                                     *)
(***************************************************************************)
MaxTextLen == 4
MaxPatLen == 3

\* byte values used in buffers and patterns: 'a', 'b'
TextBytes == {97, 98}

RECURSIVE SeqsUpTo(_, _)
SeqsUpTo(S, n) ==
    IF n = 0 THEN {<<>>}
    ELSE LET shorter == SeqsUpTo(S, n - 1)
         IN  shorter \cup {Append(s, x) : s \in {t \in shorter : Len(t) = n - 1}, x \in S}

(***************************************************************************)
(* find_occurrences (main.rs 124-140)                                      *)
(***************************************************************************)
\* text[i..]: the slice from the 0-based index i to the end
SliceFrom(text, i) == SubSeq(text, i + 1, Len(text))

\* slice.starts_with(pattern)
StartsWith(s, p) == Len(p) <= Len(s) /\ SubSeq(s, 1, Len(p)) = p

\* line 125: the condition of the early return
\* (variants: the test without one of its two halves)
FoEarlyReturn_NoEmptyCheck(text, pattern) == Len(text) < Len(pattern)
FoEarlyReturn_NoLengthCheck(text, pattern) == Len(pattern) = 0
FoEarlyReturn(text, pattern) == Len(pattern) = 0 \/ Len(text) < Len(pattern)

\* line 131: text.len() - pattern.len() on usize underflows when the pattern is
\* the longer one (a panic in a debug build; in a release build it wraps to
\* 2^64 - d, the scan runs past the buffer and text[i..] panics)
FoUnderflow(text, pattern) == Len(text) < Len(pattern)

\* line 131: the loop condition
FoLoopCond(text, pattern, i) == i <= Len(text) - Len(pattern)

\* lines 132-137: one iteration of the loop body, from locals <<i, count>>
\* (variant: a match advances by 1, counting overlapping matches)
FoBody_Overlapping(text, pattern, i, count) ==
    IF StartsWith(SliceFrom(text, i), pattern)
    THEN <<i + 1, count + 1>>
    ELSE <<i + 1, count>>
FoBody(text, pattern, i, count) ==
    IF StartsWith(SliceFrom(text, i), pattern)
    THEN <<i + Len(pattern), count + 1>>
    ELSE <<i + 1, count>>

\* the value a call returns; Panic stands for a call that does not return
Panic == -1

RECURSIVE FoLoop(_, _, _, _)
FoLoop(text, pattern, i, count) ==
    IF FoUnderflow(text, pattern) \/ i > Len(text) THEN Panic
    ELSE IF FoLoopCond(text, pattern, i)
         THEN LET n == FoBody(text, pattern, i, count)
              IN  IF n[1] > i THEN FoLoop(text, pattern, n[1], n[2]) ELSE Panic
         ELSE count

find_occurrences(text, pattern) ==
    IF FoEarlyReturn(text, pattern) THEN 0 ELSE FoLoop(text, pattern, 0, 0)

(***************************************************************************)
(* f64: scores and weights                                                 *)
(*                                                                         *)
(* A score is an f64 (main.rs 33, 44, 98).  The model keeps the integer    *)
(* valued floats and their rounding: a value has MantissaBits significant  *)
(* bits (53 in an f64), and a sum or product that needs more is rounded to *)
(* the nearest representable value, ties to even.  Fractions, signed       *)
(* zero, infinities and NaN are outside the model.                         *)
(***************************************************************************)
MantissaBits == 3

RECURSIVE Pow2(_)
Pow2(n) == IF n = 0 THEN 1 ELSE 2 * Pow2(n - 1)

\* the least k with x / 2^k < 2^MantissaBits, for x >= 0
RECURSIVE FShift(_, _)
FShift(x, k) == IF x \div Pow2(k) < Pow2(MantissaBits) THEN k ELSE FShift(x, k + 1)

FRoundAbs(x) ==
    LET k == FShift(x, 0)
        q == x \div Pow2(k)
        r == x % Pow2(k)
        up == 2 * r > Pow2(k) \/ (2 * r = Pow2(k) /\ q % 2 = 1)
    IN  (IF up THEN q + 1 ELSE q) * Pow2(k)

\* round to nearest, ties to even
FRound(x) == IF x < 0 THEN 0 - FRoundAbs(0 - x) ELSE FRoundAbs(x)

\* line 107: count as f64
UsizeAsF64(n) == FRound(n)
\* line 110: count * target.weight
FMul(a, b) == FRound(a * b)
\* line 110: label_score += ...
FAdd(a, b) == FRound(a + b)

(***************************************************************************)
(* hex::decode (called at main.rs 102)                                     *)
(***************************************************************************)
\* the value of a hex digit of either case, -1 for any other character
HexVal(c) ==
    CASE c = "0" -> 0 [] c = "1" -> 1 [] c = "2" -> 2 [] c = "3" -> 3 [] c = "4" -> 4
      [] c = "5" -> 5 [] c = "6" -> 6 [] c = "7" -> 7 [] c = "8" -> 8 [] c = "9" -> 9
      [] c \in {"a", "A"} -> 10 [] c \in {"b", "B"} -> 11 [] c \in {"c", "C"} -> 12
      [] c \in {"d", "D"} -> 13 [] c \in {"e", "E"} -> 14 [] c \in {"f", "F"} -> 15
      [] OTHER -> -1

\* the bytes of an even number of hex digits, a byte from each pair
RECURSIVE HexBytes(_)
HexBytes(s) ==
    IF Len(s) = 0 THEN <<>>
    ELSE <<16 * HexVal(s[1]) + HexVal(s[2])>> \o HexBytes(SubSeq(s, 3, Len(s)))

\* Ok(bytes) for an even number of hex digits, Err otherwise
HexDecode(s) ==
    IF Len(s) % 2 # 0 THEN [ok |-> FALSE, bytes |-> <<>>]
    ELSE IF \E i \in 1..Len(s) : HexVal(s[i]) = -1 THEN [ok |-> FALSE, bytes |-> <<>>]
    ELSE [ok |-> TRUE, bytes |-> HexBytes(s)]

(***************************************************************************)
(* process_row (main.rs 85-122)                                            *)
(*                                                                         *)
(* TargetJson: [targets |-> a function from label names to LabelTarget],   *)
(* LabelTarget: [targets |-> a sequence of NGramTarget], NGramTarget:      *)
(* [bytes_pattern, weight].  The fields no code reads are left out.        *)
(* Strings are sequences of bytes; a hex string is a sequence of           *)
(* characters.                                                             *)
(***************************************************************************)
\* lines 90-92: record.iter().collect::<Vec<&str>>().join(" ")
RECURSIVE JoinFields(_)
JoinFields(record) ==
    IF Len(record) = 0 THEN <<>>
    ELSE IF Len(record) = 1 THEN record[1]
    ELSE record[1] \o <<32>> \o JoinFields(Tail(record))

\* lines 102-111: one target's effect on label_score
\* (variants: an undecodable pattern still scored; the weight not applied)
TargetStep_NoSkip(text, target, label_score) ==
    LET lenient == [i \in 1..(Len(target.bytes_pattern) \div 2) |-> 97]
        pattern == IF HexDecode(target.bytes_pattern).ok
                   THEN HexDecode(target.bytes_pattern).bytes ELSE lenient
    IN  FAdd(label_score, FMul(UsizeAsF64(find_occurrences(text, pattern)), target.weight))
TargetStep_NoWeight(text, target, label_score) ==
    LET decoded == HexDecode(target.bytes_pattern)
    IN  IF decoded.ok
        THEN FAdd(label_score, UsizeAsF64(find_occurrences(text, decoded.bytes)))
        ELSE label_score
TargetStep(text, target, label_score) ==
    LET decoded == HexDecode(target.bytes_pattern)
    IN  IF decoded.ok
        THEN FAdd(label_score,
                  FMul(UsizeAsF64(find_occurrences(text, decoded.bytes)), target.weight))
        ELSE label_score

\* lines 98-112: the loop over a label's targets, from the k-th on
RECURSIVE LabelScoreFrom(_, _, _, _)
LabelScoreFrom(text, targetList, k, label_score) ==
    IF k > Len(targetList) THEN label_score
    ELSE LabelScoreFrom(text, targetList, k + 1, TargetStep(text, targetList[k], label_score))

\* lines 94-115: the score map, one insert per label of the configuration
\* (variant: no entry for a label that scored 0)
ScoreMap_DropUnmatched(text, targetJson) ==
    LET all == [label \in DOMAIN targetJson.targets |->
                    LabelScoreFrom(text, targetJson.targets[label].targets, 1, 0)]
        hit == {label \in DOMAIN all : all[label] # 0}
    IN  [label \in hit |-> all[label]]
ScoreMap(text, targetJson) ==
    [label \in DOMAIN targetJson.targets |->
        LabelScoreFrom(text, targetJson.targets[label].targets, 1, 0)]

process_row(row_id, record, targetJson) ==
    LET text == JoinFields(record)
    IN  [row_id |-> row_id, text |-> text, scores |-> ScoreMap(text, targetJson)]

(***************************************************************************)
(* Inputs of process_row                                                   *)
(***************************************************************************)
MaxTargets == 3

\* label names "a", "ab", "b"
LabelNames == {<<97>>, <<97, 98>>, <<98>>}

\* the labels of the configurations process_row is called with: "a", "ab"
RowLabelNames == {<<97>>, <<97, 98>>}

\* "61" ('a'), "6161" ("aa"), "6g" (no hex digit), "616" (odd length)
HexA == <<"6", "1">>
HexAA == <<"6", "1", "6", "1">>
HexBadChar == <<"6", "g">>
HexOdd == <<"6", "1", "6">>

\* the least weight whose successor is not representable
BigWeight == Pow2(MantissaBits)

NGramTarget(p, w) == [bytes_pattern |-> p, weight |-> w]
TargetPool ==
    {NGramTarget(HexA, w) : w \in {0, BigWeight, 0 - BigWeight}}
        \cup {NGramTarget(HexAA, 1), NGramTarget(HexBadChar, 1), NGramTarget(HexOdd, BigWeight)}

\* rows of one or two fields: "a", "a|aaa"
RecordPool == {<< <<97>> >>, << <<97>>, <<97, 97, 97>> >>}

\* the configurations over the labels L with at most n targets in all
RECURSIVE ConfigsUpTo(_, _)
ConfigsUpTo(L, n) ==
    IF n = 0 THEN {[targets |-> [label \in L |-> [targets |-> <<>>]]]}
    ELSE LET fewer == ConfigsUpTo(L, n - 1)
         IN  fewer \cup
             {[targets |-> [c.targets EXCEPT ![label].targets = Append(@, t)]] :
                 c \in fewer, label \in L, t \in TargetPool}

RowInit ==
    /\ FindIdle
    /\ WriteIdle
    /\ MainIdle
    /\ prRowId = 1
    /\ prRecord \in RecordPool
    /\ \E L \in SUBSET RowLabelNames : prTargets \in ConfigsUpTo(L, MaxTargets)
    /\ prPc = "call"
    /\ prResult = [row_id |-> 0, text |-> <<>>, scores |-> <<>>]

ProcessRow ==
    /\ prPc = "call"
    /\ prResult' = process_row(prRowId, prRecord, prTargets)
    /\ prPc' = "returned"
    /\ UNCHANGED <<prRowId, prRecord, prTargets, foVars, wrVars, mainVars>>

NextRow == ProcessRow

SpecRow == RowInit /\ [][NextRow]_vars

(***************************************************************************)
(* find_occurrences as a step machine: one action per loop iteration       *)
(***************************************************************************)
FindInit ==
    /\ RowIdle
    /\ WriteIdle
    /\ MainIdle
    /\ foText \in SeqsUpTo(TextBytes, MaxTextLen)
    /\ foPattern \in SeqsUpTo(TextBytes, MaxPatLen)
    /\ foPc = "entry"
    /\ foI = 0
    /\ foCount = 0

\* lines 125-130
FoEnter ==
    /\ foPc = "entry"
    /\ foPc' = IF FoEarlyReturn(foText, foPattern) THEN "done" ELSE "loop"
    /\ foI' = 0
    /\ foCount' = 0
    /\ UNCHANGED <<foText, foPattern, prVars, wrVars, mainVars>>

\* lines 131-138: test the condition, then run the body or leave the loop
FoIter ==
    /\ foPc = "loop"
    /\ IF FoUnderflow(foText, foPattern) \/ foI > Len(foText)
       THEN foPc' = "panic" /\ UNCHANGED <<foI, foCount>>
       ELSE IF FoLoopCond(foText, foPattern, foI)
            THEN LET n == FoBody(foText, foPattern, foI, foCount)
                 IN  foPc' = "loop" /\ foI' = n[1] /\ foCount' = n[2]
            ELSE foPc' = "done" /\ UNCHANGED <<foI, foCount>>
    /\ UNCHANGED <<foText, foPattern, prVars, wrVars, mainVars>>

NextFind == FoEnter \/ FoIter

SpecFind == FindInit /\ [][NextFind]_vars

\* the loop is sequential code: a step that can be taken is taken
SpecFindFair == FindInit /\ [][NextFind]_vars /\ WF_vars(NextFind)

(***************************************************************************)
(* write_results (main.rs 142-183)                                         *)
(*                                                                         *)
(* The output is the sequence of records handed to the csv writer, a       *)
(* record a sequence of cells, a cell a string (a sequence of bytes).      *)
(***************************************************************************)
\* String's Ord: byte-wise lexicographic, a proper prefix first
StrLess(a, b) ==
    \E i \in 1..(Len(a) + 1) :
        /\ i <= Len(b)
        /\ SubSeq(a, 1, i - 1) = SubSeq(b, 1, i - 1)
        /\ (i > Len(a) \/ a[i] < b[i])

\* line 155: labels.sort(), on the distinct names collected from the hash set
\* (variant: shorter names first)
RECURSIVE SortLabels_ByLength(_)
SortLabels_ByLength(S) ==
    IF S = {} THEN <<>>
    ELSE LET first == CHOOSE x \in S : \A y \in S \ {x} :
                          Len(x) < Len(y) \/ (Len(x) = Len(y) /\ StrLess(x, y))
         IN  <<first>> \o SortLabels_ByLength(S \ {first})
RECURSIVE SortLabels(_)
SortLabels(S) ==
    IF S = {} THEN <<>>
    ELSE LET first == CHOOSE x \in S : \A y \in S \ {x} : StrLess(x, y)
         IN  <<first>> \o SortLabels(S \ {first})

\* lines 150-155: the label columns
OutputLabels(rowResults) ==
    SortLabels(UNION {DOMAIN rowResults[i].scores : i \in 1..Len(rowResults)})

\* usize::to_string: decimal digits
RECURSIVE UsizeToString(_)
UsizeToString(n) ==
    IF n < 10 THEN <<48 + n>> ELSE UsizeToString(n \div 10) \o <<48 + (n % 10)>>

\* f64::to_string of an integer valued float: the digits, no fraction, "-" first
\* for a negative value (4.0 is written "4", 0.0 is written "0")
F64ToString(x) == IF x < 0 THEN <<45>> \o UsizeToString(0 - x) ELSE UsizeToString(x)

\* lines 158-159: "row_id", "text", then the labels
HeaderRecord(labels) ==
    << <<114, 111, 119, 95, 105, 100>>, <<116, 101, 120, 116>> >> \o labels

\* lines 172-174: result.scores.get(label).unwrap_or(&0.0)
ScoreOrDefault(result, label) ==
    IF label \in DOMAIN result.scores THEN result.scores[label] ELSE 0

\* lines 164-176: the record of one result
DataRecord(result, labels) ==
    <<UsizeToString(result.row_id), result.text>>
        \o [k \in 1..Len(labels) |-> F64ToString(ScoreOrDefault(result, labels[k]))]

\* lines 150-179: every record written, in order
WrittenRecords(rowResults) ==
    LET labels == OutputLabels(rowResults)
    IN  <<HeaderRecord(labels)>>
            \o [i \in 1..Len(rowResults) |-> DataRecord(rowResults[i], labels)]

(***************************************************************************)
(* main (main.rs 47-83)                                                    *)
(***************************************************************************)
MaxRows == 2
NumWorkers == 2

\* what serde_json::from_reader(File::open(..)?)? yields (lines 56-58)
MainConfigs == UNION {ConfigsUpTo(L, 1) : L \in SUBSET RowLabelNames}
ConfigLoads ==
    {[ok |-> FALSE, error |-> e, value |-> NoTargets] :
        e \in {"unreadable", "malformed", "missing_field", "mistyped_field"}}
    \cup {[ok |-> TRUE, error |-> "none", value |-> c] : c \in MainConfigs}

\* line 59 is reached with the parsed value only when the load succeeded
\* (variant: a failed load replaced by an empty configuration)
LoadedTargets_DefaultOnError(load) == [ok |-> TRUE, value |-> load.value]
LoadedTargets(load) == [ok |-> load.ok, value |-> load.value]

\* the items of reader.records(): a parsed record or an error
RawRows ==
    {[ok |-> FALSE, fields |-> <<>>]} \cup {[ok |-> TRUE, fields |-> r] : r \in RecordPool}

\* lines 67-69: filter_map(Result::ok).collect()
\* (variant: reading stops at the first row that fails)
RECURSIVE CollectOkRecords_UntilError(_)
CollectOkRecords_UntilError(rows) ==
    IF Len(rows) = 0 \/ ~Head(rows).ok THEN <<>>
    ELSE <<Head(rows).fields>> \o CollectOkRecords_UntilError(Tail(rows))
RECURSIVE CollectOkRecords(_)
CollectOkRecords(rows) ==
    IF Len(rows) = 0 THEN <<>>
    ELSE IF Head(rows).ok THEN <<Head(rows).fields>> \o CollectOkRecords(Tail(rows))
         ELSE CollectOkRecords(Tail(rows))

\* lines 72-77: the Vec an indexed parallel iterator collects: the result of the
\* item at index i at index i, whatever the order the results arrived in
\* (variant: the results in the order they arrived)
CollectResults_ByArrival(placed, arrival) ==
    [k \in 1..Len(arrival) |-> placed[arrival[k]].value]
CollectResults(placed, arrival) == [k \in 1..Len(placed) |-> placed[k].value]

\* a place of the collected Vec no result has been written to yet
NoResult == [present |-> FALSE, value |-> [row_id |-> 0, text |-> <<>>, scores |-> <<>>]]

MainInit ==
    /\ FindIdle
    /\ RowIdle
    /\ WriteIdle
    /\ pc = "start"
    /\ argc \in {3, 4}
    /\ configLoad = NotLoaded
    /\ inputRows = <<>>
    /\ targets = NoTargets
    /\ records = <<>>
    /\ results = <<>>
    /\ pending = {}
    /\ worker = [w \in 1..NumWorkers |-> 0]
    /\ slots = <<>>
    /\ completed = <<>>
    /\ output = NoOutput
    /\ exitCause = "none"

\* lines 49-53: the argument count
CheckArgs ==
    /\ pc = "start"
    /\ IF argc # 4
       THEN pc' = "exit" /\ exitCause' = "usage"
       ELSE pc' = "load" /\ exitCause' = exitCause
    /\ UNCHANGED <<argc, configLoad, inputRows, targets, records, results,
                   pending, worker, slots, completed, output>>
    /\ UNCHANGED <<foVars, prVars, wrVars>>

\* lines 56-59: load the targets file; an error returns from main
LoadConfig ==
    /\ pc = "load"
    /\ \E load \in ConfigLoads :
           /\ configLoad' = load
           /\ IF LoadedTargets(load).ok
              THEN /\ targets' = LoadedTargets(load).value
                   /\ pc' = "open"
                   /\ exitCause' = exitCause
              ELSE /\ targets' = targets
                   /\ pc' = "exit"
                   /\ exitCause' = "config_load"
    /\ UNCHANGED <<argc, inputRows, records, results, pending, worker, slots,
                   completed, output>>
    /\ UNCHANGED <<foVars, prVars, wrVars>>

\* lines 62-64: open the input file; an error returns from main
OpenInput ==
    /\ pc = "open"
    /\ \E opened \in BOOLEAN :
           IF opened
           THEN pc' = "read" /\ exitCause' = exitCause
           ELSE pc' = "exit" /\ exitCause' = "input_open"
    /\ UNCHANGED <<argc, configLoad, inputRows, targets, records, results,
                   pending, worker, slots, completed, output>>
    /\ UNCHANGED <<foVars, prVars, wrVars>>

\* lines 67-69: read every record, dropping the rows that fail to parse
ReadRecords ==
    /\ pc = "read"
    /\ \E rows \in SeqsUpTo(RawRows, MaxRows) :
           /\ inputRows' = rows
           /\ records' = CollectOkRecords(rows)
           /\ pending' = 1..Len(CollectOkRecords(rows))
           /\ slots' = [k \in 1..Len(CollectOkRecords(rows)) |-> NoResult]
    /\ pc' = "map"
    /\ UNCHANGED <<argc, configLoad, targets, results, worker, completed, output, exitCause>>
    /\ UNCHANGED <<foVars, prVars, wrVars>>

\* lines 72-76: a worker takes any row not yet taken ...
TakeRow(w) ==
    /\ pc = "map"
    /\ worker[w] = 0
    /\ \E k \in pending :
           /\ worker' = [worker EXCEPT ![w] = k]
           /\ pending' = pending \ {k}
    /\ UNCHANGED <<pc, argc, configLoad, inputRows, targets, records, results,
                   slots, completed, output, exitCause>>
    /\ UNCHANGED <<foVars, prVars, wrVars>>

\* ... and scores it: enumerate() numbers the records from 0
FinishRow(w) ==
    /\ pc = "map"
    /\ worker[w] # 0
    /\ slots' = [slots EXCEPT ![worker[w]] =
                    [present |-> TRUE,
                     value |-> process_row(worker[w] - 1, records[worker[w]], targets)]]
    /\ completed' = Append(completed, worker[w])
    /\ worker' = [worker EXCEPT ![w] = 0]
    /\ UNCHANGED <<pc, argc, configLoad, inputRows, targets, records, results,
                   pending, output, exitCause>>
    /\ UNCHANGED <<foVars, prVars, wrVars>>

\* line 77: collect() returns once every row is scored
Collect ==
    /\ pc = "map"
    /\ pending = {}
    /\ \A w \in 1..NumWorkers : worker[w] = 0
    /\ results' = CollectResults(slots, completed)
    /\ pc' = "write"
    /\ UNCHANGED <<argc, configLoad, inputRows, targets, records, pending, worker,
                   slots, completed, output, exitCause>>
    /\ UNCHANGED <<foVars, prVars, wrVars>>

\* line 80: write_results; an error creating the file or writing a record
\* returns from main, leaving the records written before it
WriteOutput ==
    /\ pc = "write"
    /\ \E outcome \in {"ok", "create_fails", "write_fails"} :
           IF outcome = "ok"
           THEN /\ output' = [created |-> TRUE, rows |-> WrittenRecords(results)]
                /\ pc' = "done"
                /\ exitCause' = exitCause
           ELSE /\ \E n \in 0..Len(WrittenRecords(results)) :
                       output' = [created |-> outcome = "write_fails",
                                  rows |-> IF outcome = "write_fails"
                                           THEN SubSeq(WrittenRecords(results), 1, n)
                                           ELSE <<>>]
                /\ pc' = "exit"
                /\ exitCause' = "output_write"
    /\ UNCHANGED <<argc, configLoad, inputRows, targets, records, results,
                   pending, worker, slots, completed>>
    /\ UNCHANGED <<foVars, prVars, wrVars>>

Next ==
    \/ CheckArgs
    \/ LoadConfig
    \/ OpenInput
    \/ ReadRecords
    \/ \E w \in 1..NumWorkers : TakeRow(w)
    \/ \E w \in 1..NumWorkers : FinishRow(w)
    \/ Collect
    \/ WriteOutput

Spec == MainInit /\ [][Next]_vars

(***************************************************************************)
(* write_results called on its own                                         *)
(***************************************************************************)
\* results as main passes them (row_id the index), with any score maps
WriteTexts == {<<98, 32, 97>>}
WriteScoreMaps == UNION {[L -> {12, 0 - BigWeight}] : L \in SUBSET LabelNames}

WriteInit ==
    /\ FindIdle
    /\ RowIdle
    /\ MainIdle
    /\ \E n \in 0..MaxRows :
           \E texts \in [1..n -> WriteTexts], maps \in [1..n -> WriteScoreMaps] :
               wrResults = [i \in 1..n |->
                               [row_id |-> i - 1, text |-> texts[i], scores |-> maps[i]]]
    /\ wrPc = "call"
    /\ wrOutput = <<>>

WriteResults ==
    /\ wrPc = "call"
    /\ wrOutput' = WrittenRecords(wrResults)
    /\ wrPc' = "written"
    /\ UNCHANGED <<wrResults, foVars, prVars, mainVars>>

NextWrite == WriteResults

SpecWrite == WriteInit /\ [][NextWrite]_vars

(***************************************************************************)
(* Claims about find_occurrences                                           *)
(***************************************************************************)
\* the pattern occurs in the buffer at the 0-based position p
OccursAt(text, pattern, p) ==
    /\ p + Len(pattern) <= Len(text)
    /\ \A k \in 1..Len(pattern) : text[p + k] = pattern[k]

SetMin(S) == CHOOSE x \in S : \A y \in S : x <= y

\* the positions a greedy non-overlapping scan from position s matches at: the
\* first occurrence at or after s, then the scan resumed behind that match
RECURSIVE GreedyMatches(_, _, _)
GreedyMatches(text, pattern, s) ==
    LET occ == {p \in s..Len(text) : OccursAt(text, pattern, p)}
    IN  IF occ = {} THEN {}
        ELSE {SetMin(occ)} \cup GreedyMatches(text, pattern, SetMin(occ) + Len(pattern))

\* C1: for a non-empty pattern the returned count is the number of matches of
\* the greedy left-to-right non-overlapping scan, a matched region never being
\* reused: "aa" in "aaa" counts 1.
C1_GreedyNonOverlappingCount ==
    (foPc = "done" /\ Len(foPattern) > 0) =>
        /\ foCount = Cardinality(GreedyMatches(foText, foPattern, 0))
        /\ find_occurrences(foText, foPattern) = foCount
        /\ (foText = <<97, 97, 97>> /\ foPattern = <<97, 97>>) => foCount = 1

C1_Witness ==
    /\ foPc = "done"
    /\ foText = <<97, 97, 97>>
    /\ foPattern = <<97, 97>>
    /\ foCount = 1

\* C2: the count is 0 for the empty pattern and for a pattern longer than the
\* buffer; such a call returns at once, without entering the scan loop.
C2_EmptyOrLongPatternCountsZero ==
    (Len(foPattern) = 0 \/ Len(foPattern) > Len(foText)) =>
        /\ foPc \in {"entry", "done"}
        /\ foPc = "done" => foCount = 0
        /\ find_occurrences(foText, foPattern) = 0

C2_Witness ==
    /\ foPc = "done"
    /\ Len(foPattern) = 0
    /\ Len(foText) > 0
    /\ foCount = 0

\* C10: the scan never underflows the subtraction or slices out of range, the
\* index strictly increases on every iteration (by len(pattern) >= 1 on a
\* match, by 1 otherwise), count * len(pattern) <= len(text), and the call
\* terminates.
C10_InRange ==
    /\ foPc # "panic"
    /\ foPc = "loop" =>
        /\ 1 <= Len(foPattern)
        /\ Len(foPattern) <= Len(foText)
        /\ foI <= Len(foText)
    /\ foCount * Len(foPattern) <= Len(foText)

C10_IndexIncreases ==
    (foPc = "loop" /\ foPc' = "loop") =>
        /\ foI' > foI
        /\ foI' - foI = (IF foCount' > foCount THEN Len(foPattern) ELSE 1)
        /\ foCount' \in {foCount, foCount + 1}

C10_ScanTerminatesInRange ==
    /\ []C10_InRange
    /\ [][C10_IndexIncreases]_vars
    /\ <>(foPc = "done")

C10_Witness ==
    /\ foPc = "done"
    /\ foCount >= 2
    /\ foI = Len(foText)
    /\ Len(foPattern) >= 2

(***************************************************************************)
(* Claims about process_row                                                *)
(***************************************************************************)
Decodes(target) == HexDecode(target.bytes_pattern).ok

\* the label's targets whose bytes_pattern decodes, in list order
DecodableTargets(targetList) == SelectSeq(targetList, Decodes)

\* count(text, pattern) * weight of a decodable target
Term(text, target) ==
    FMul(UsizeAsF64(find_occurrences(text, HexDecode(target.bytes_pattern).bytes)),
         target.weight)

\* the f64 sum of the terms, accumulated in list order
RECURSIVE SumOfTerms(_, _)
SumOfTerms(text, targetList) ==
    IF Len(targetList) = 0 THEN 0
    ELSE FAdd(SumOfTerms(text, SubSeq(targetList, 1, Len(targetList) - 1)),
              Term(text, targetList[Len(targetList)]))

\* no addition rounds while the terms are accumulated in this order, from the
\* k-th target on with the exact sum acc so far
RECURSIVE NoSumRoundsFrom(_, _, _, _)
NoSumRoundsFrom(text, targetList, k, acc) ==
    /\ FRound(acc) = acc
    /\ k <= Len(targetList) =>
           NoSumRoundsFrom(text, targetList, k + 1, acc + Term(text, targetList[k]))

NoSumRounds(text, targetList) == NoSumRoundsFrom(text, targetList, 1, 0)

WithoutTarget(targetList, k) ==
    SubSeq(targetList, 1, k - 1) \o SubSeq(targetList, k + 1, Len(targetList))

\* every ordering of the targets of a list
RECURSIVE Reorderings(_)
Reorderings(targetList) ==
    IF Len(targetList) <= 1 THEN {targetList}
    ELSE UNION {{<<targetList[k]>> \o rest : rest \in Reorderings(WithoutTarget(targetList, k))} :
                   k \in 1..Len(targetList)}

ScoreOf(text, targetList) == LabelScoreFrom(text, targetList, 1, 0)

RowText == JoinFields(prRecord)
RowLabels == DOMAIN prTargets.targets
RowTargets(label) == prTargets.targets[label].targets

C3_SumAndZeroWeight(label) ==
    /\ prResult.scores[label] = SumOfTerms(RowText, DecodableTargets(RowTargets(label)))
    /\ \A k \in 1..Len(RowTargets(label)) :
           RowTargets(label)[k].weight = 0 =>
               prResult.scores[label] = ScoreOf(RowText, WithoutTarget(RowTargets(label), k))

\* C3 as stated: the score is the sum of count * weight over the decodable
\* targets, a weight 0 target never changes it, and the order of the targets
\* within the label does not matter.
C3_AsStated_OrderNeverMatters ==
    prPc = "returned" =>
        \A label \in RowLabels :
            /\ C3_SumAndZeroWeight(label)
            /\ \A other \in Reorderings(RowTargets(label)) :
                   ScoreOf(RowText, other) = prResult.scores[label]

\* C3 (amended): the score process_row stores for a label is the f64 sum,
\* accumulated in list order, of count * weight over the label's targets whose
\* bytes_pattern decodes; a target with weight 0 never changes it; reordering
\* the targets leaves it unchanged whenever no addition rounds in either order.
C3_ScoreIsSumInListOrder ==
    prPc = "returned" =>
        \A label \in RowLabels :
            /\ C3_SumAndZeroWeight(label)
            /\ NoSumRounds(RowText, DecodableTargets(RowTargets(label))) =>
                   \A other \in Reorderings(RowTargets(label)) :
                       NoSumRounds(RowText, DecodableTargets(other))
                           => ScoreOf(RowText, other) = prResult.scores[label]

\* a label of three targets with a non-zero score: a matching target of weight
\* 0, a matching target of weight 1, and sums that do not round
C3_Witness ==
    /\ prPc = "returned"
    /\ \E label \in RowLabels :
           /\ Len(RowTargets(label)) = 3
           /\ prResult.scores[label] # 0
           /\ \E k \in 1..3 :
                  /\ RowTargets(label)[k].weight = 0
                  /\ Decodes(RowTargets(label)[k])
                  /\ find_occurrences(RowText, HexDecode(RowTargets(label)[k].bytes_pattern).bytes) > 0
           /\ \E j \in 1..3 :
                  /\ RowTargets(label)[j].weight = 1
                  /\ Decodes(RowTargets(label)[j])
                  /\ find_occurrences(RowText, HexDecode(RowTargets(label)[j].bytes_pattern).bytes) > 0
           /\ NoSumRounds(RowText, DecodableTargets(RowTargets(label)))

\* C4: the score map of a RowResult has an entry for every label of the
\* configuration and for no other key, and the entry is 0 when no pattern of
\* the label matched (no targets, none decodes, or none occurs in the text).
C4_EveryLabelScored ==
    prPc = "returned" =>
        /\ DOMAIN prResult.scores = RowLabels
        /\ \A label \in RowLabels :
               (\A k \in 1..Len(RowTargets(label)) :
                    \/ ~Decodes(RowTargets(label)[k])
                    \/ find_occurrences(RowText, HexDecode(RowTargets(label)[k].bytes_pattern).bytes) = 0)
                   => prResult.scores[label] = 0

\* two labels: one whose only pattern does not occur in the text, one that scores
C4_Witness ==
    /\ prPc = "returned"
    /\ Cardinality(RowLabels) = 2
    /\ \E label \in RowLabels :
           /\ Len(RowTargets(label)) = 1
           /\ Decodes(RowTargets(label)[1])
           /\ RowTargets(label)[1].weight # 0
           /\ prResult.scores[label] = 0
    /\ \E label \in RowLabels : prResult.scores[label] # 0

\* the configuration without the targets whose bytes_pattern does not decode
ValidTargetsOnly(targetJson) ==
    [targets |-> [label \in DOMAIN targetJson.targets |->
                     [targets |-> DecodableTargets(targetJson.targets[label].targets)]]]

\* C5: a target whose bytes_pattern is not valid hex (odd length, a character
\* that is no hex digit) is skipped: process_row returns, and what it returns
\* is what it returns for the configuration without that target, for every
\* label.
C5_InvalidHexTargetSkipped ==
    prPc = "returned" =>
        /\ prResult = process_row(prRowId, prRecord, ValidTargetsOnly(prTargets))
        /\ \A label \in RowLabels :
               prResult.scores[label] = ScoreOf(RowText, DecodableTargets(RowTargets(label)))

\* a label with the target "6g" and a valid target that scores
C5_Witness ==
    /\ prPc = "returned"
    /\ \E label \in RowLabels :
           /\ \E k \in 1..Len(RowTargets(label)) : RowTargets(label)[k].bytes_pattern = HexBadChar
           /\ \E k \in 1..Len(RowTargets(label)) : RowTargets(label)[k].bytes_pattern = HexOdd
           /\ \E k \in 1..Len(RowTargets(label)) : Decodes(RowTargets(label)[k])
           /\ prResult.scores[label] # 0

(***************************************************************************)
(* Claims about write_results                                              *)
(***************************************************************************)
WrLabelSet == UNION {DOMAIN wrResults[i].scores : i \in 1..Len(wrResults)}
WrHeaderLabels == SubSeq(wrOutput[1], 3, Len(wrOutput[1]))

\* C8: the header is row_id, text, then the distinct label names of all score
\* maps in ascending (byte-wise alphabetical) order without duplicates, which
\* is the common label set when every map has the same keys and a row exists;
\* then one record per result, in the order of the results and so of ascending
\* row_id, its score cells in the header's column order, a label missing from
\* a result's map written as 0.
C8_HeaderSortedRowsInOrder ==
    wrPc = "written" =>
        /\ Len(wrOutput) = 1 + Len(wrResults)
        /\ wrOutput[1][1] = <<114, 111, 119, 95, 105, 100>>
        /\ wrOutput[1][2] = <<116, 101, 120, 116>>
        /\ {WrHeaderLabels[k] : k \in 1..Len(WrHeaderLabels)} = WrLabelSet
        /\ \A j, k \in 1..Len(WrHeaderLabels) :
               j < k => StrLess(WrHeaderLabels[j], WrHeaderLabels[k])
        /\ \A L \in SUBSET LabelNames :
               (Len(wrResults) > 0 /\ \A i \in 1..Len(wrResults) : DOMAIN wrResults[i].scores = L)
                   => Len(WrHeaderLabels) = Cardinality(L) /\ WrLabelSet = L
        /\ \A i \in 1..Len(wrResults) :
               /\ Len(wrOutput[i + 1]) = Len(wrOutput[1])
               /\ wrOutput[i + 1][1] = UsizeToString(wrResults[i].row_id)
               /\ wrOutput[i + 1][2] = wrResults[i].text
               /\ \A j \in 1..Len(wrResults) : i < j => wrResults[i].row_id < wrResults[j].row_id
               /\ \A k \in 1..Len(WrHeaderLabels) :
                      wrOutput[i + 1][2 + k] =
                          IF WrHeaderLabels[k] \in DOMAIN wrResults[i].scores
                          THEN F64ToString(wrResults[i].scores[WrHeaderLabels[k]])
                          ELSE <<48>>

\* two results that together name "a", "ab" and "b", the first lacking "ab"
C8_Witness ==
    /\ wrPc = "written"
    /\ Len(wrResults) = 2
    /\ DOMAIN wrResults[1].scores = {<<98>>, <<97>>}
    /\ DOMAIN wrResults[2].scores = {<<97, 98>>}
    /\ wrOutput[1] = << <<114, 111, 119, 95, 105, 100>>, <<116, 101, 120, 116>>,
                        <<97>>, <<97, 98>>, <<98>> >>
    /\ wrOutput[2][4] = <<48>>
    /\ wrOutput[3][4] = <<49, 50>>

(***************************************************************************)
(* Claims about main                                                       *)
(***************************************************************************)
\* the positions (from 1) of the input rows that parsed, in order
OkPositions(rows) ==
    LET Parsed(p) == rows[p].ok
    IN  SelectSeq([p \in 1..Len(rows) |-> p], Parsed)

Collected == pc \in {"write", "done"}

\* C6 as stated: a row that fails to be read does not shift the row_ids after
\* it: the row_id of every surviving row is its zero-based position in the
\* original input.
C6_AsStated_RowIdIsInputPosition ==
    Collected =>
        /\ Len(results) = Len(OkPositions(inputRows))
        /\ \A k \in 1..Len(results) : results[k].row_id = OkPositions(inputRows)[k] - 1

\* C6 (amended): a row that fails to be read is absent from the output, and the
\* rows after it move up: the row_id of every surviving row is its zero-based
\* position among the rows that were read, so the row_ids written are
\* 0, 1, ..., n-1 without gaps.
C6_RowIdIsPositionAmongReadRows ==
    /\ Collected =>
           /\ Len(results) = Len(OkPositions(inputRows))
           /\ \A k \in 1..Len(results) :
                  /\ results[k].row_id = k - 1
                  /\ results[k].text = JoinFields(inputRows[OkPositions(inputRows)[k]].fields)
    /\ pc = "done" =>
           /\ Len(output.rows) = 1 + Len(OkPositions(inputRows))
           /\ \A k \in 1..Len(OkPositions(inputRows)) :
                  /\ output.rows[k + 1][1] = UsizeToString(k - 1)
                  /\ output.rows[k + 1][2] = JoinFields(inputRows[OkPositions(inputRows)[k]].fields)

\* a row that failed, then a row that was read and written with row_id 0
C6_Witness ==
    /\ pc = "done"
    /\ Len(inputRows) = 2
    /\ ~inputRows[1].ok
    /\ inputRows[2].ok
    /\ Len(results) = 1
    /\ results[1].row_id = 0
    /\ output.rows[2][1] = <<48>>

\* what the rows read and the configuration determine
ExpectedResults == [k \in 1..Len(records) |-> process_row(k - 1, records[k], targets)]

\* C7: whatever order the workers take and finish the rows in, results[i] is
\* the result of row i with row_id i, and the output written is the one these
\* results determine: both are functions of the input and the configuration.
C7_ResultsIndependentOfSchedule ==
    /\ \A k \in 1..Len(slots) : slots[k].present => slots[k].value = ExpectedResults[k]
    /\ Collected =>
           /\ results = ExpectedResults
           /\ \A k \in 1..Len(results) : results[k].row_id = k - 1
    /\ pc = "done" => output = [created |-> TRUE, rows |-> WrittenRecords(ExpectedResults)]

\* the second row finished first, and the two rows score differently
C7_Witness ==
    /\ pc = "done"
    /\ completed = <<2, 1>>
    /\ results[1].scores # results[2].scores
    /\ results[1].row_id = 0
    /\ results[2].row_id = 1

\* C9: when loading the configuration fails the run ends with an error at
\* once: no row is read or scored and no output is written; a row that fails
\* to parse or a pattern that fails to decode never ends the run.
C9_ConfigLoadFailureIsFatal ==
    /\ (configLoad # NotLoaded /\ ~configLoad.ok) =>
           /\ pc = "exit"
           /\ exitCause = "config_load"
           /\ inputRows = <<>>
           /\ records = <<>>
           /\ completed = <<>>
           /\ \A w \in 1..NumWorkers : worker[w] = 0
           /\ results = <<>>
           /\ output = NoOutput
    /\ pc = "exit" => exitCause \in {"usage", "config_load", "input_open", "output_write"}
    /\ pc \in {"map", "write", "done"} => configLoad.ok
    /\ Collected => Len(results) = Len(OkPositions(inputRows))

C9_Witness ==
    /\ pc = "exit"
    /\ exitCause = "config_load"
    /\ configLoad.error = "missing_field"
    /\ output = NoOutput

=============================================================================
